---- MODULE Spec2Model ----
(***************************************************************************)
(* Daily news digest: feed normalisation (scrapers.py), the aggregation    *)
(* run (main.py) and the rendering and delivery of the digest              *)
(* (email_sender.py).                                                      *)
(*                                                                         *)
(* Strings are sequences of symbols.  A symbol is a letter ("a", "b"), a   *)
(* white-space character (" ", "\t"), one markup tag (TAG), which the HTML *)
(* parser removes as a whole, or a literal chunk of a format string.       *)
(***************************************************************************)
EXTENDS Integers, Sequences, FiniteSets, TLC

VARIABLES
    pc,               \* position of the operation in progress
    entry,            \* the raw feed entry being processed
    include_summary,  \* _entry_to_headline's flag
    headline,         \* the normaliser's result (None or a Headline)
    feed,             \* what feedparser.parse last gave (None before)
    i,                \* index of the next feed of the fetch in progress
    acc,              \* the result the fetch in progress has built so far
    accounts,         \* the accounts (feeds) of the time-windowed fetch
    cutoff,           \* now - window of the time-windowed fetch
    fetched,          \* main: what each fetch returned (None before)
    digest,           \* main: all_headlines
    smtp,             \* delivery: "idle", "sent", "auth_error" or "error"
                      \* ("idle": no SMTP session was opened)
    ret,              \* main's return value (None while running)
    body,             \* format_email_body's result (None before)
    j                 \* entries of the current feed processed so far

vars == <<pc, entry, include_summary, headline, feed, i, acc, accounts,
          cutoff, fetched, digest, smtp, ret, body, j>>

normVars == <<entry, include_summary, headline, j>>
mainVars == <<feed, i, acc, accounts, cutoff, fetched, digest, smtp, ret, body>>

(***************************************************************************)
(* Values                                                                  *)
(***************************************************************************)
\* an optional value is a sequence of at most one element
None == <<>>
Some(x) == <<x>>
\* a call ends by returning a value or by raising
Returned(v) == [raised |-> FALSE, val |-> v]
Raised == [raised |-> TRUE, val |-> <<>>]
\* a time (in hours) held by a field of an entry
At(t) == [kind |-> "time", t |-> t]
\* a time field of an entry that is missing or falsy
ABSENT == [kind |-> "absent", t |-> 0]
\* a time field that is present but whose conversion raises
INVALID == [kind |-> "invalid", t |-> 0]
\* a textual date email.utils.parsedate_tz cannot parse (it returns None)
UNPARSEABLE == [kind |-> "unparseable", t |-> 0]
TAG == "<t>"
IsSpace(c) == c \in {" ", "\t"}

(***************************************************************************)
(* Python string helpers                                                   *)
(***************************************************************************)
\* the first and the last position of s that hold no white space (0: none)
FirstInk(s) ==
    IF \A n \in 1..Len(s) : IsSpace(s[n]) THEN 0
    ELSE CHOOSE n \in 1..Len(s) :
             ~IsSpace(s[n]) /\ \A m \in 1..(n - 1) : IsSpace(s[m])
LastInk(s) ==
    IF \A n \in 1..Len(s) : IsSpace(s[n]) THEN 0
    ELSE CHOOSE n \in 1..Len(s) :
             ~IsSpace(s[n]) /\ \A m \in (n + 1)..Len(s) : IsSpace(s[m])

\* str.strip()
Strip(s) ==
    IF FirstInk(s) = 0 THEN <<>> ELSE SubSeq(s, FirstInk(s), LastInk(s))

\* each symbol of s paired with the symbol before it
WithPrev(s) == [n \in 1..Len(s) |-> <<s[n], IF n = 1 THEN " " ELSE s[n - 1]>>]

\* ' '.join(s.split()): the maximal runs of non-white-space symbols, in
\* order, with one " " between two of them (a run of white space keeps its
\* first symbol, as " ", unless it leads or trails)
JoinSplit(s) ==
    LET kept == SelectSeq(WithPrev(Strip(s)),
                          LAMBDA p : ~IsSpace(p[1]) \/ ~IsSpace(p[2]))
    IN  [n \in 1..Len(kept) |-> IF IsSpace(kept[n][1]) THEN " " ELSE kept[n][1]]

\* BeautifulSoup(text, 'html.parser').get_text(): the text without its tags
GetText(text) == SelectSeq(text, LAMBDA c : c # TAG)

\* the index of the last " " of s, 0 when there is none
LastSpace(s) ==
    CHOOSE n \in 0..Len(s) :
        /\ n > 0 => s[n] = " "
        /\ \A m \in (n + 1)..Len(s) : s[m] # " "

\* text.rsplit(' ', 1)[0]
RSplit1Head(s) ==
    IF LastSpace(s) = 0 THEN s ELSE SubSeq(s, 1, LastSpace(s) - 1)

Ellipsis == <<".", ".", ".">>

(***************************************************************************)
(* NewsScrapers: normalisation                                             *)
(***************************************************************************)
\* the summary limit _entry_to_headline passes to _truncate
SummaryLen == 200

clean_html(text) ==
    IF text = <<>> THEN <<>>
    ELSE Strip(JoinSplit(GetText(text)))

\* (variant) a cut at the limit, in the middle of a word
truncate_hard(text, length) ==
    IF text = <<>> \/ Len(text) <= length THEN text
    ELSE SubSeq(text, 1, length) \o Ellipsis

truncate(text, length) ==
    IF text = <<>> \/ Len(text) <= length THEN text
    ELSE RSplit1Head(SubSeq(text, 1, length)) \o Ellipsis

\* entry.get('summary', '') or entry.get('description', '')
SummaryOf(e) == IF e.summary # <<>> THEN e.summary ELSE e.description

entry_to_headline(e, incl) ==
    LET title == Strip(e.title)
        link  == Strip(e.link)
    IN  IF title = <<>> THEN None
        ELSE Some([title   |-> clean_html(title),
                   url     |-> link,
                   summary |-> IF incl /\ SummaryOf(e) # <<>>
                               THEN truncate(clean_html(SummaryOf(e)), SummaryLen)
                               ELSE <<>>])

(***************************************************************************)
(* Raw feed entries                                                        *)
(***************************************************************************)
Entry(t, l, s, d, pp, up, pub) ==
    [title |-> t, link |-> l, summary |-> s, description |-> d,
     published_parsed |-> pp, updated_parsed |-> up, published |-> pub]

\* an entry without any date
Undated(t, l, s, d) == Entry(t, l, s, d, ABSENT, ABSENT, ABSENT)

\* all strings over the symbols cs of length at most n
RECURSIVE StringsUpTo(_, _)
StringsUpTo(cs, n) ==
    IF n = 0 THEN {<<>>}
    ELSE LET shorter == StringsUpTo(cs, n - 1)
         IN  shorter \cup {Append(s, c) : s \in shorter, c \in cs}

\* a word of n letters
Word(n) == [m \in 1..n |-> "a"]

\* the words of the given lengths, separated by sep
RECURSIVE JoinWords(_, _)
JoinWords(lens, sep) ==
    IF lens = <<>> THEN <<>>
    ELSE IF Len(lens) = 1 THEN Word(lens[1])
    ELSE Word(lens[1]) \o sep \o JoinWords(Tail(lens), sep)

MaxTitleLen == 3
MaxWords == 3
\* word lengths around the summary limit
WordLens == {1, 99, 100, 199, 200, 201}

RawTitles == StringsUpTo({"a", " ", TAG}, MaxTitleLen)
RawLinks == {<<>>, <<"http:">>, <<" ", "http:", " ">>}

\* prose of up to MaxWords words, plain or with markup and runs of white space
RawProse ==
    LET lens == UNION {[1..n -> WordLens] : n \in 0..MaxWords}
    IN  {JoinWords(l, <<" ">>) : l \in lens}
        \cup {<<TAG>> \o JoinWords(l, <<" ", "\t">>) \o <<TAG, " ">> : l \in lens}

\* the entries handed to the normaliser: every title with a short summary,
\* and every summary (or description) under one title
NormEntries ==
    {Undated(t, l, <<"a", " ", "a">>, <<>>) : t \in RawTitles, l \in RawLinks}
    \cup {Undated(<<"a">>, <<"http:">>, s, <<>>) : s \in RawProse}
    \cup {Undated(<<"a">>, <<"http:">>, <<>>, d) : d \in RawProse}

(***************************************************************************)
(* SpecNorm: one call of _entry_to_headline                                *)
(***************************************************************************)
InitNorm ==
    /\ pc = "norm"
    /\ entry \in {Some(e) : e \in NormEntries}
    /\ include_summary \in BOOLEAN
    /\ headline = None
    /\ feed = None /\ i = 0 /\ acc = <<>> /\ accounts = <<>> /\ cutoff = 0
    /\ fetched = [s \in {} |-> None] /\ digest = <<>> /\ smtp = "idle"
    /\ ret = None /\ body = None /\ j = 0

Normalize ==
    /\ pc = "norm"
    /\ headline' = entry_to_headline(entry[1], include_summary)
    /\ pc' = "normalized"
    /\ UNCHANGED <<entry, include_summary, j, mainVars>>

NextNorm == Normalize

SpecNorm == InitNorm /\ [][NextNorm]_vars

(***************************************************************************)
(* Ordered mappings (Python dicts): sequences of [k, v], insertion order   *)
(***************************************************************************)
Keys(m) == {m[n].k : n \in DOMAIN m}
Has(m, key) == key \in Keys(m)
IndexOf(m, key) == CHOOSE n \in DOMAIN m : m[n].k = key
Get(m, key) == m[IndexOf(m, key)].v
\* m[key] = val: a new key goes last, a known key keeps its place
Put(m, key, val) ==
    IF Has(m, key) THEN [m EXCEPT ![IndexOf(m, key)].v = val]
    ELSE Append(m, [k |-> key, v |-> val])

(***************************************************************************)
(* NewsScrapers: fetching                                                  *)
(***************************************************************************)
\* what feedparser.parse(url) does: it raises, or gives a feed with its
\* error flag (bozo) and the entries it could extract
Feed(raises, bozo, entries) ==
    [raises |-> raises, bozo |-> bozo, entries |-> entries]
RaisingFeed == Feed(TRUE, FALSE, <<>>)

max_headlines == 6
globe_max_items == 4

Min(a, b) == IF a <= b THEN a ELSE b

\* (variant) any reported error empties the result
parse_feed_any_error(f, max_items) ==
    IF f.raises THEN Returned(<<>>)
    ELSE IF f.bozo THEN Returned(<<>>)
    ELSE Returned(SubSeq(f.entries, 1, Min(max_items, Len(f.entries))))

\* _parse_feed: its handler turns an exception of feedparser.parse into []
parse_feed(f, max_items) ==
    IF f.raises THEN Returned(<<>>)
    ELSE IF f.bozo /\ f.entries = <<>> THEN Returned(<<>>)
    ELSE Returned(SubSeq(f.entries, 1, Min(max_items, Len(f.entries))))

\* the headlines of the entries, in order, without the absent results
RECURSIVE Normalized(_)
Normalized(entries) ==
    IF entries = <<>> THEN <<>>
    ELSE entry_to_headline(Head(entries), TRUE) \o Normalized(Tail(entries))

\* one iteration of the section loop of fetch_nytimes, fetch_globe_and_mail
\* and fetch_lapresse
fetch_section(all_headlines, section, f, max_items) ==
    LET entries == parse_feed(f, max_items)
    IN  IF entries.raised THEN all_headlines
        ELSE IF Normalized(entries.val) # <<>>
             THEN Put(all_headlines, section, Normalized(entries.val))
             ELSE all_headlines

fetch_axios(f) ==
    LET entries == parse_feed(f, max_headlines)
    IN  IF entries.raised THEN <<>> ELSE Normalized(entries.val)

\* the time of a field (datetime(*field[:6])), None when the conversion
\* raises, which _parse_date's handler turns into None
Converted(field) == IF field.kind = "time" THEN Some(field.t) ELSE None

parse_date(e) ==
    IF e.published_parsed # ABSENT THEN Converted(e.published_parsed)
    ELSE IF e.updated_parsed # ABSENT THEN Converted(e.updated_parsed)
    ELSE IF e.published # ABSENT THEN Converted(e.published)
    ELSE None

\* times are hours since the start of the month
Digits == <<"0", "1", "2", "3", "4", "5", "6", "7", "8", "9">>
TwoDigits(n) == <<Digits[((n \div 10) % 10) + 1], Digits[(n % 10) + 1]>>
\* strftime('%b %d')
MonthDay(t) == <<"J", "a", "n", " ">> \o TwoDigits(t \div 24 + 1)
\* strftime('%b %d at %H:%M')
MonthDayTime(t) ==
    MonthDay(t) \o <<" ", "a", "t", " ">> \o TwoDigits(t % 24) \o <<":", "0", "0">>

\* the record fetch_substacks builds
substack_post(username, title, link, pub_date) ==
    [title   |-> <<"@", username, ":", " ">> \o title,
     url     |-> link,
     summary |-> <<"P", "o", "s", "t", "e", "d", " ">> \o MonthDayTime(pub_date)]

\* the record fetch_podcasts builds
podcast_episode(podcast_name, title, link, pub_date) ==
    [title   |-> <<podcast_name, ":", " ">> \o title,
     url     |-> link,
     summary |-> <<"P", "u", "b", "l", "i", "s", "h", "e", "d", " ">>
                 \o MonthDay(pub_date)]

\* (variant) an entry at the cutoff is kept
recent_entry_inclusive(recent, kind, name, e, cut) ==
    LET pub_date == parse_date(e)
        title    == Strip(e.title)
        link     == Strip(e.link)
    IN  IF pub_date = None THEN recent
        ELSE IF pub_date[1] >= cut /\ title # <<>>
             THEN Append(recent,
                         IF kind = "substack"
                         THEN substack_post(name, title, link, pub_date[1])
                         ELSE podcast_episode(name, title, link, pub_date[1]))
             ELSE recent

\* one iteration of the entry loop of fetch_substacks ("substack") and
\* fetch_podcasts ("podcasts")
recent_entry(recent, kind, name, e, cut) ==
    LET pub_date == parse_date(e)
        title    == Strip(e.title)
        link     == Strip(e.link)
    IN  IF pub_date = None THEN recent
        ELSE IF pub_date[1] > cut /\ title # <<>>
             THEN Append(recent,
                         IF kind = "substack"
                         THEN substack_post(name, title, link, pub_date[1])
                         ELSE podcast_episode(name, title, link, pub_date[1]))
             ELSE recent

RECURSIVE recent_entries(_, _, _, _, _)
recent_entries(recent, kind, name, entries, cut) ==
    IF entries = <<>> THEN recent
    ELSE recent_entries(recent_entry(recent, kind, name, Head(entries), cut),
                        kind, name, Tail(entries), cut)

\* (variant) the account loop without its exception handler
fetch_recent_feed_unguarded(recent, kind, name, f, cut) ==
    IF f.raises THEN Raised
    ELSE IF f.entries = <<>> THEN Returned(recent)
    ELSE Returned(recent_entries(recent, kind, name, f.entries, cut))

\* one iteration of the account loop of fetch_substacks and fetch_podcasts
fetch_recent_feed(recent, kind, name, f, cut) ==
    IF f.raises THEN Returned(recent)
    ELSE IF f.entries = <<>> THEN Returned(recent)
    ELSE Returned(recent_entries(recent, kind, name, f.entries, cut))

(***************************************************************************)
(* EmailSender.format_email_body                                           *)
(*                                                                         *)
(* A line of the text and a part of the HTML is a format string (fmt) with *)
(* the values put into it (arg, and href for the link).                    *)
(***************************************************************************)
\* (variant) the order in which main inserts the sources
source_order_inserted ==
    <<"NEW YORK TIMES", "GLOBE AND MAIL", "LA PRESSE", "AXIOS", "SUBSTACK", "PODCASTS">>

source_order ==
    <<"NEW YORK TIMES", "LA PRESSE", "GLOBE AND MAIL", "AXIOS", "SUBSTACK", "PODCASTS">>

Line(fmt, arg) == [fmt |-> fmt, arg |-> arg, href |-> <<>>]
Link(url, title) == [fmt |-> "<a href={}>{}</a>", arg |-> title, href |-> url]
Body(text, html) == [text |-> text, html |-> html]
Nothing == Body(<<>>, <<>>)
Both(a, b) == Body(a.text \o b.text, a.html \o b.html)

\* (variant) a source with sections counts as having content
has_content_any(sections) == sections # <<>>

\* any(headlines for headlines in sections.values() if headlines)
has_content(sections) == \E n \in DOMAIN sections : sections[n].v # <<>>

\* (variant) one sentence for both always-shown sources
empty_state_same(source) == <<"No new posts in the last 24 hours">>

\* the fixed sentence of an always-shown source without content
empty_state(source) ==
    IF source = "SUBSTACK" THEN <<"No new posts in the last 24 hours">>
    ELSE <<"No new episodes in the last 48 hours">>

\* (variant) only the text skips a headline without a title
render_headline_untitled(h) ==
    Body(
        IF h.title = <<>> THEN <<>>
        ELSE (IF h.url # <<>>
              THEN <<Line("  - {}", h.title), Line("    {}", h.url)>>
              ELSE <<Line("  - {}", h.title)>>)
             \o (IF h.summary # <<>> THEN <<Line("    {}", h.summary)>> ELSE <<>>),
        <<Line("<li>", <<>>)>>
        \o (IF h.url # <<>>
            THEN <<Link(h.url, h.title)>>
            ELSE <<Line("<strong>{}</strong>", h.title)>>)
        \o (IF h.summary # <<>>
            THEN <<Line("<br><span>{}</span>", h.summary)>>
            ELSE <<>>)
        \o <<Line("</li>", <<>>)>>)

\* one iteration of the headline loop
render_headline(h) ==
    IF h.title = <<>> THEN Nothing
    ELSE Body(
        (IF h.url # <<>>
         THEN <<Line("  - {}", h.title), Line("    {}", h.url)>>
         ELSE <<Line("  - {}", h.title)>>)
        \o (IF h.summary # <<>> THEN <<Line("    {}", h.summary)>> ELSE <<>>),
        <<Line("<li>", <<>>)>>
        \o (IF h.url # <<>>
            THEN <<Link(h.url, h.title)>>
            ELSE <<Line("<strong>{}</strong>", h.title)>>)
        \o (IF h.summary # <<>>
            THEN <<Line("<br><span>{}</span>", h.summary)>>
            ELSE <<>>)
        \o <<Line("</li>", <<>>)>>)

RECURSIVE render_headlines(_)
render_headlines(headlines) ==
    IF headlines = <<>> THEN Nothing
    ELSE Both(render_headline(Head(headlines)), render_headlines(Tail(headlines)))

\* (variant) a sub-header for every section that holds headlines
render_section_always_named(sections, n) ==
    IF sections[n].v = <<>> THEN Nothing
    ELSE Both(
        Body(<<Line("\n  {}:", <<sections[n].k>>)>>,
             <<Line("<h3>{}</h3>", <<sections[n].k>>)>>),
        Both(Body(<<>>, <<Line("<ul>", <<>>)>>),
             Both(render_headlines(sections[n].v),
                  Body(<<>>, <<Line("</ul>", <<>>)>>))))

\* one iteration of the section loop
render_section(sections, n) ==
    IF sections[n].v = <<>> THEN Nothing
    ELSE Both(
        IF Len(sections) > 1
        THEN Body(<<Line("\n  {}:", <<sections[n].k>>)>>,
                  <<Line("<h3>{}</h3>", <<sections[n].k>>)>>)
        ELSE Nothing,
        Both(Body(<<>>, <<Line("<ul>", <<>>)>>),
             Both(render_headlines(sections[n].v),
                  Body(<<>>, <<Line("</ul>", <<>>)>>))))

RECURSIVE render_sections(_, _)
render_sections(sections, n) ==
    IF n > Len(sections) THEN Nothing
    ELSE Both(render_section(sections, n), render_sections(sections, n + 1))

\* one iteration of the source loop
render_source(all_headlines, source) ==
    IF ~Has(all_headlines, source) THEN Nothing
    ELSE LET sections == Get(all_headlines, source)
         IN  IF ~has_content(sections) /\ source \notin {"SUBSTACK", "PODCASTS"}
             THEN Nothing
             ELSE Both(
                 Body(<<Line("\n{}", <<source>>), Line("-*len", <<source>>)>>,
                      <<Line("<h2>{}</h2>", <<source>>)>>),
                 IF ~has_content(sections)
                 THEN Body(<<Line("  {}", empty_state(source))>>,
                           <<Line("<p italic>{}</p>", empty_state(source))>>)
                 ELSE Both(render_sections(sections, 1),
                           Body(<<Line("", <<>>)>>, <<>>)))

RECURSIVE render_sources(_, _)
render_sources(all_headlines, n) ==
    IF n > Len(source_order) THEN Nothing
    ELSE Both(render_source(all_headlines, source_order[n]),
              render_sources(all_headlines, n + 1))

format_email_body(all_headlines) ==
    Both(Body(<<Line("DAILY NEWS DIGEST - {}", <<"date_str">>),
                Line("=*50", <<>>), Line("", <<>>)>>,
              <<Line("<html><body>", <<>>), Line("<h1>Daily News Digest</h1>", <<>>),
                Line("<p #666>{}</p>", <<"date_str">>)>>),
         Both(render_sources(all_headlines, 1),
              Body(<<Line("\n=*50", <<>>), Line("Delivered by Daily News Digest", <<>>)>>,
                   <<Line("<hr>", <<>>), Line("<p>Delivered by Daily News Digest</p>", <<>>),
                     Line("</body></html>", <<>>)>>)))

(***************************************************************************)
(* main                                                                    *)
(***************************************************************************)
nytimes_feeds == <<"Top Stories", "World", "Opinion">>
globe_feeds == <<"Canada", "Politics", "Opinion">>
lapresse_feeds == <<"Actualites", "International", "Affaires">>
substack_accounts ==
    <<"everydayai", "understandingai", "aisnakeoil", "darioamodei", "sineadbovell">>
podcast_feeds == <<"The Cognitive Revolution", "Ezra Klein Show">>
substack_hours == 24
podcast_hours == 48

PressSources == {"NEW YORK TIMES", "GLOBE AND MAIL", "LA PRESSE", "AXIOS"}
AlwaysShown == {"SUBSTACK", "PODCASTS"}
SourceNames == PressSources \cup AlwaysShown

\* the hour at which the run takes place (datetime.now())
Now == 100

SectionsOf(p) ==
    CASE p = "nytimes" -> nytimes_feeds
      [] p = "globe" -> globe_feeds
      [] p = "lapresse" -> lapresse_feeds
MaxItemsOf(p) == IF p = "globe" THEN globe_max_items ELSE max_headlines
SourceOf(p) ==
    CASE p = "nytimes" -> "NEW YORK TIMES"
      [] p = "globe" -> "GLOBE AND MAIL"
      [] p = "lapresse" -> "LA PRESSE"
      [] p = "axios" -> "AXIOS"
      [] p = "substack" -> "SUBSTACK"
      [] p = "podcasts" -> "PODCASTS"
AfterPress(p) ==
    CASE p = "nytimes" -> "globe"
      [] p = "globe" -> "lapresse"
      [] p = "lapresse" -> "axios"
SectionedPcs == {"nytimes", "globe", "lapresse"}
RecentPcs == {"substack", "podcasts"}

\* the entries of the run's feeds
Titled == Undated(<<"a">>, <<"http:">>, <<"a", " ", "a">>, <<>>)
Untitled == Undated(<<" ">>, <<"http:">>, <<"a">>, <<>>)
Dated(t) == Entry(<<"a">>, <<"http:">>, <<>>, <<>>, At(t), ABSENT, ABSENT)

\* what a press feed may give: an exception, an error without entries,
\* nothing, an entry, an entry with the error flag set, an entry to skip
PressFeeds ==
    {RaisingFeed, Feed(FALSE, TRUE, <<>>), Feed(FALSE, FALSE, <<>>),
     Feed(FALSE, FALSE, <<Titled>>), Feed(FALSE, TRUE, <<Titled>>),
     Feed(FALSE, FALSE, <<Untitled>>)}

\* what an account's feed may give, the window starting at cut: an
\* exception, nothing, an entry after the cutoff (SpecRecent has the entries
\* at and before the cutoff)
RecentFeeds(cut) ==
    {RaisingFeed, Feed(FALSE, FALSE, <<>>), Feed(FALSE, FALSE, <<Dated(cut + 1)>>)}

NotFetched == [s \in SourceNames |-> None]

\* (variant) main keeps a press source whatever its fetch returned
add_source_always(all_headlines, source, sections) ==
    Put(all_headlines, source, sections)

\* main: if nyt_headlines: all_headlines['NEW YORK TIMES'] = nyt_headlines
add_source(all_headlines, source, sections) ==
    IF sections # <<>> THEN Put(all_headlines, source, sections) ELSE all_headlines

\* main: all_headlines['SUBSTACK'] = {'AI Writers': posts if posts else []}
add_recent(all_headlines, source, section, posts) ==
    Put(all_headlines, source,
        <<[k |-> section, v |-> IF posts # <<>> THEN posts ELSE <<>>]>>)

\* (variant) main without its handler: the exception leaves main
main_except_reraise == [pc |-> "raised", ret |-> None]

\* main's handler: except Exception: log the error, return 1
main_except == [pc |-> "done", ret |-> Some(1)]

Init ==
    /\ pc = "main"
    /\ entry = None /\ include_summary = TRUE /\ headline = None
    /\ feed = None /\ i = 0 /\ acc = <<>> /\ accounts = <<>> /\ cutoff = 0
    /\ fetched = NotFetched /\ digest = <<>> /\ smtp = "idle" /\ ret = None
    /\ body = None /\ j = 0

\* scrapers = NewsScrapers(); email_sender = EmailSender(): the constructor
\* raises without credentials, and main's handler returns 1
Start ==
    /\ pc = "main"
    /\ \E credentials \in BOOLEAN :
         IF credentials
         THEN pc' = "nytimes" /\ i' = 1 /\ ret' = ret
         ELSE pc' = main_except.pc /\ i' = i /\ ret' = main_except.ret
    /\ UNCHANGED <<normVars, body, feed, acc, accounts, cutoff, fetched, digest, smtp>>

\* one section of fetch_nytimes, fetch_globe_and_mail or fetch_lapresse
FetchSection ==
    /\ pc \in SectionedPcs
    /\ i <= Len(SectionsOf(pc))
    /\ \E f \in PressFeeds :
         /\ feed' = Some(f)
         /\ acc' = fetch_section(acc, SectionsOf(pc)[i], f, MaxItemsOf(pc))
    /\ i' = i + 1
    /\ UNCHANGED <<pc, normVars, body, accounts, cutoff, fetched, digest, smtp, ret>>

\* the sectioned fetch returns; main keeps the source when it has sections
ReturnSections ==
    /\ pc \in SectionedPcs
    /\ i > Len(SectionsOf(pc))
    /\ fetched' = [fetched EXCEPT ![SourceOf(pc)] = Some(acc)]
    /\ digest' = add_source(digest, SourceOf(pc), acc)
    /\ pc' = AfterPress(pc)
    /\ i' = 1 /\ acc' = <<>> /\ feed' = None
    /\ UNCHANGED <<normVars, body, accounts, cutoff, smtp, ret>>

\* fetch_axios, and main's single "Top Stories" section for it
FetchAxios ==
    /\ pc = "axios"
    /\ \E f \in PressFeeds :
         /\ feed' = Some(f)
         /\ fetched' = [fetched EXCEPT !["AXIOS"] = Some(fetch_axios(f))]
         /\ digest' = IF fetch_axios(f) # <<>>
                      THEN Put(digest, "AXIOS",
                               <<[k |-> "Top Stories", v |-> fetch_axios(f)]>>)
                      ELSE digest
    /\ pc' = "substack" /\ i' = 0
    /\ UNCHANGED <<normVars, body, acc, accounts, cutoff, smtp, ret>>

\* main calls fetch_substacks or fetch_podcasts, which sets its cutoff
CallRecent ==
    /\ pc \in RecentPcs
    /\ i = 0
    /\ accounts' = IF pc = "substack" THEN substack_accounts ELSE podcast_feeds
    /\ cutoff' = Now - (IF pc = "substack" THEN substack_hours ELSE podcast_hours)
    /\ i' = 1 /\ acc' = <<>> /\ feed' = None
    /\ UNCHANGED <<pc, normVars, body, fetched, digest, smtp, ret>>

\* one account of fetch_substacks or one feed of fetch_podcasts; an
\* exception leaving the fetch ends main in its handler
FetchRecentFeed(feeds) ==
    /\ pc \in RecentPcs
    /\ i >= 1 /\ i <= Len(accounts)
    /\ \E f \in feeds :
         LET r == fetch_recent_feed(acc, pc, accounts[i], f, cutoff)
         IN  /\ feed' = Some(f)
             /\ IF r.raised
                THEN pc' = main_except.pc /\ ret' = main_except.ret
                     /\ acc' = acc /\ i' = i
                ELSE pc' = pc /\ ret' = ret /\ acc' = r.val /\ i' = i + 1
    /\ UNCHANGED <<normVars, body, accounts, cutoff, fetched, digest, smtp>>

\* the time-windowed fetch returns; main always keeps the source, with one
\* section
ReturnRecent ==
    /\ pc \in RecentPcs
    /\ i > Len(accounts)
    /\ fetched' = [fetched EXCEPT ![SourceOf(pc)] = Some(acc)]
    /\ digest' = add_recent(digest, SourceOf(pc),
                             IF pc = "substack" THEN "AI Writers" ELSE "New Episodes",
                             acc)
    /\ pc' = IF pc = "substack" THEN "podcasts" ELSE "send"
    /\ i' = 0 /\ acc' = <<>> /\ feed' = None
    /\ UNCHANGED <<normVars, body, accounts, cutoff, smtp, ret>>

\* what the SMTP session may do
SmtpOutcomes == {"sent", "auth_error", "error"}
\* what the delivery may do: format_email_body (or building the message)
\* raises before any session is opened, or the session takes place
SendOutcomes == {"render_error"} \cup SmtpOutcomes

\* send_daily_digest: False without headlines, and False from its two
\* handlers when the rendering or the session raises
send_daily_digest(all_headlines, outcome) ==
    IF all_headlines = <<>> THEN Returned(FALSE)
    ELSE IF outcome = "render_error" THEN Returned(FALSE)
    ELSE IF outcome = "auth_error" THEN Returned(FALSE)
    ELSE IF outcome = "error" THEN Returned(FALSE)
    ELSE Returned(TRUE)

\* main's last step: no delivery without headlines, else the delivery (the
\* message is format_email_body(digest), which stays local to the delivery)
Send ==
    /\ pc = "send"
    /\ IF digest = <<>>
       THEN smtp' = smtp /\ ret' = Some(1) /\ pc' = "done"
       ELSE \E outcome \in SendOutcomes :
              LET success == send_daily_digest(digest, outcome)
              IN  /\ smtp' = IF outcome \in SmtpOutcomes THEN outcome ELSE smtp
                  /\ IF success.raised
                     THEN pc' = main_except.pc /\ ret' = main_except.ret
                     ELSE pc' = "done" /\ ret' = Some(IF success.val THEN 0 ELSE 1)
    /\ UNCHANGED <<normVars, body, feed, i, acc, accounts, cutoff, fetched, digest>>

Next ==
    \/ Start
    \/ FetchSection
    \/ ReturnSections
    \/ FetchAxios
    \/ CallRecent
    \/ FetchRecentFeed(RecentFeeds(cutoff))
    \/ ReturnRecent
    \/ Send

Spec == Init /\ [][Next]_vars

\* the run is one thread of control: a step that can be taken is taken
LiveSpec == Spec /\ WF_vars(Next)

(***************************************************************************)
(* SpecFeed: one feed of a press fetch (the first iteration of the section *)
(* loop of fetch_nytimes, fetch_globe_and_mail or fetch_lapresse, or       *)
(* fetch_axios), the feed holding more entries than the cap                *)
(***************************************************************************)
MaxFeedLen == 7

\* the entries of a press feed: two that differ by their title and one that
\* the normaliser discards
FeedEntries ==
    {Undated(<<"a">>, <<"http:">>, <<"a", " ", "a">>, <<>>),
     Undated(<<"b">>, <<"http:">>, <<>>, <<>>),
     Untitled}

\* what feedparser.parse may give for a press feed
LongFeeds ==
    {RaisingFeed}
    \cup {Feed(FALSE, bozo, entries) :
            bozo \in BOOLEAN,
            entries \in UNION {[1..n -> FeedEntries] : n \in 0..MaxFeedLen}}

InitFeed ==
    /\ pc \in SectionedPcs \cup {"axios"}
    /\ i = IF pc = "axios" THEN 0 ELSE 1
    /\ feed = None /\ acc = <<>> /\ j = 0
    /\ entry = None /\ include_summary = TRUE /\ headline = None
    /\ accounts = <<>> /\ cutoff = 0
    /\ fetched = NotFetched /\ digest = <<>> /\ smtp = "idle" /\ ret = None
    /\ body = None

\* the section's feed is parsed and its entries normalised
FetchOneSection ==
    /\ pc \in SectionedPcs
    /\ feed = None
    /\ \E f \in LongFeeds :
         /\ feed' = Some(f)
         /\ acc' = fetch_section(acc, SectionsOf(pc)[i], f, MaxItemsOf(pc))
         /\ j' = Len(parse_feed(f, MaxItemsOf(pc)).val)
    /\ i' = i + 1
    /\ UNCHANGED <<pc, entry, include_summary, headline, accounts, cutoff,
                   fetched, digest, smtp, ret, body>>

\* fetch_axios parses its feed and normalises the entries
FetchOneAxios ==
    /\ pc = "axios"
    /\ feed = None
    /\ \E f \in LongFeeds :
         /\ feed' = Some(f)
         /\ acc' = fetch_axios(f)
         /\ j' = Len(parse_feed(f, max_headlines).val)
    /\ UNCHANGED <<pc, i, entry, include_summary, headline, accounts, cutoff,
                   fetched, digest, smtp, ret, body>>

NextFeed ==
    \/ FetchOneSection
    \/ FetchOneAxios

SpecFeed == InitFeed /\ [][NextFeed]_vars

(***************************************************************************)
(* SpecRecent: one call of fetch_substacks or fetch_podcasts, entry by     *)
(* entry                                                                   *)
(***************************************************************************)
MaxAccounts == 2
MaxEntries == 2

Prefix(s, n) == SubSeq(s, 1, Min(n, Len(s)))

\* the entries an account's feed may hold, the window starting at cut:
\* (published_parsed, updated_parsed, published) and the title
RecentEntries(cut) ==
    {Entry(<<"a">>, <<"http:">>, <<"a">>, <<>>, d[1], d[2], d[3]) :
        d \in {<<At(cut + 1), ABSENT, ABSENT>>,
               <<At(cut), ABSENT, ABSENT>>,
               <<At(cut - 1), ABSENT, ABSENT>>,
               <<ABSENT, ABSENT, ABSENT>>,
               <<INVALID, At(cut + 1), ABSENT>>,
               <<ABSENT, At(cut + 2), ABSENT>>,
               <<ABSENT, INVALID, At(cut + 1)>>,
               <<ABSENT, ABSENT, At(cut + 1)>>,
               <<ABSENT, ABSENT, At(cut)>>,
               <<ABSENT, ABSENT, UNPARSEABLE>>,
               <<ABSENT, ABSENT, INVALID>>,
               <<At(cut + 1), At(cut - 1), ABSENT>>,
               <<At(cut - 1), At(cut + 1), At(cut + 1)>>}}
    \cup {Entry(t, <<"http:">>, <<>>, <<>>, At(cut + 1), ABSENT, ABSENT) :
            t \in {<<>>, <<" ">>}}

InitRecent ==
    /\ pc \in RecentPcs
    /\ accounts \in {Prefix(IF pc = "substack" THEN substack_accounts ELSE podcast_feeds, n) :
                        n \in 0..MaxAccounts}
    /\ cutoff = Now - (IF pc = "substack" THEN substack_hours ELSE podcast_hours)
    /\ i = 1 /\ j = 0 /\ acc = <<>> /\ feed = None /\ entry = None
    /\ include_summary = TRUE /\ headline = None
    /\ fetched = NotFetched /\ digest = <<>> /\ smtp = "idle" /\ ret = None
    /\ body = None

\* feedparser.parse raises, or there are no entries: on to the next account
SkipFeed ==
    /\ pc \in RecentPcs
    /\ i <= Len(accounts) /\ j = 0
    /\ \E f \in {RaisingFeed, Feed(FALSE, FALSE, <<>>), Feed(FALSE, TRUE, <<>>)} :
         /\ feed' = Some(f)
         /\ acc' = fetch_recent_feed(acc, pc, accounts[i], f, cutoff).val
    /\ i' = i + 1
    /\ entry' = None
    /\ UNCHANGED <<pc, j, include_summary, headline, accounts, cutoff, fetched,
                   digest, smtp, ret, body>>

\* the next entry of the account's feed
ProcessEntry ==
    /\ pc \in RecentPcs
    /\ i <= Len(accounts) /\ j < MaxEntries
    /\ \E e \in RecentEntries(cutoff) :
         /\ entry' = Some(e)
         /\ acc' = recent_entry(acc, pc, accounts[i], e, cutoff)
    /\ j' = j + 1
    /\ UNCHANGED <<pc, i, feed, include_summary, headline, accounts, cutoff,
                   fetched, digest, smtp, ret, body>>

\* the account's feed has no more entries
EndOfFeed ==
    /\ pc \in RecentPcs
    /\ i <= Len(accounts) /\ j >= 1
    /\ i' = i + 1 /\ j' = 0
    /\ entry' = None
    /\ UNCHANGED <<pc, feed, acc, include_summary, headline, accounts, cutoff,
                   fetched, digest, smtp, ret, body>>

\* no more accounts: the fetch returns its list
ReturnFetch ==
    /\ pc \in RecentPcs
    /\ i > Len(accounts)
    /\ fetched' = [fetched EXCEPT ![SourceOf(pc)] = Some(acc)]
    /\ pc' = "returned"
    /\ UNCHANGED <<i, j, acc, feed, entry, include_summary, headline, accounts,
                   cutoff, digest, smtp, ret, body>>

NextRecent ==
    \/ SkipFeed
    \/ ProcessEntry
    \/ EndOfFeed
    \/ ReturnFetch

SpecRecent == InitRecent /\ [][NextRecent]_vars

(***************************************************************************)
(* SpecRender: one call of format_email_body                               *)
(***************************************************************************)
MaxSections == 2
MaxHeadlines == 2

H(t, u, s) == [title |-> t, url |-> u, summary |-> s]
\* a full headline, a bare one and one without a title
CoreHeadlines ==
    {H(<<"a">>, <<"http:">>, <<"s">>), H(<<"b">>, <<>>, <<>>), H(<<>>, <<"http:">>, <<"s">>)}
\* every combination of an empty and a non-empty title, URL and summary
AnyHeadlines ==
    {H(t, u, s) : t \in {<<>>, <<"a">>}, u \in {<<>>, <<"http:">>}, s \in {<<>>, <<"s">>}}

SeqsUpTo(S, n) == UNION {[1..k -> S] : k \in 0..n}
Injective(s) == \A m, n \in DOMAIN s : m # n => s[m] # s[n]

RECURSIVE SumLen(_)
SumLen(ss) == IF ss = <<>> THEN 0 ELSE Len(Head(ss)) + SumLen(Tail(ss))

SectionLabels == <<"Top Stories", "World", "Opinion", "Canada", "Politics">>
SectionNames == {SectionLabels[n] : n \in 1..Min(MaxSections, Len(SectionLabels))}

\* the section mappings of at most MaxSections sections (in any order) that
\* hold at most MaxHeadlines headlines in all
CoreSections ==
    UNION {
        {[n \in 1..Len(names) |-> [k |-> names[n], v |-> lists[n]]] :
            lists \in {ls \in [1..Len(names) -> SeqsUpTo(CoreHeadlines, MaxHeadlines)] :
                          SumLen(ls) <= MaxHeadlines}} :
        names \in {ns \in SeqsUpTo(SectionNames, MaxSections) : Injective(ns)}}

OneSection(headlines) == <<[k |-> "Top Stories", v |-> headlines]>>

\* the section mappings of the source under study
RichSections == CoreSections \cup {OneSection(<<h>>) : h \in AnyHeadlines}

\* the section mappings of a digest of two sources
SimpleSections ==
    {OneSection(<<>>), OneSection(<<H(<<"a">>, <<"http:">>, <<"s">>)>>),
     <<[k |-> "World", v |-> <<H(<<"b">>, <<>>, <<>>), H(<<"a">>, <<>>, <<"s">>)>>],
       [k |-> "Top Stories", v |-> <<H(<<"a">>, <<"http:">>, <<>>)>>]>>}

\* the digests handed to format_email_body: none, one or two sources, the
\* two inserted in either order
RenderDigests ==
    {<<>>}
    \cup {<<[k |-> src, v |-> m]>> : src \in SourceNames, m \in RichSections}
    \cup {<<[k |-> p[1], v |-> m1], [k |-> p[2], v |-> m2]>> :
            p \in {q \in SourceNames \X SourceNames : q[1] # q[2]},
            m1 \in SimpleSections, m2 \in SimpleSections}

InitRender ==
    /\ pc = "format"
    /\ digest \in RenderDigests
    /\ body = None
    /\ entry = None /\ include_summary = TRUE /\ headline = None
    /\ feed = None /\ i = 0 /\ j = 0 /\ acc = <<>> /\ accounts = <<>> /\ cutoff = 0
    /\ fetched = NotFetched /\ smtp = "idle" /\ ret = None

Format ==
    /\ pc = "format"
    /\ body' = Some(format_email_body(digest))
    /\ pc' = "formatted"
    /\ UNCHANGED <<entry, include_summary, headline, feed, i, j, acc, accounts,
                   cutoff, fetched, digest, smtp, ret>>

NextRender == Format

SpecRender == InitRender /\ [][NextRender]_vars

(***************************************************************************)
(* Reading the two outputs back: the rendered items of a text and of an    *)
(* HTML body.  In the text a URL and a summary are both a line indented by *)
(* four spaces; a single such line under a title is read as a URL when it  *)
(* starts with a URL scheme.                                               *)
(***************************************************************************)
Item(kind, arg) == [kind |-> kind, arg |-> arg, url |-> FALSE, summary |-> <<>>]
HeadlineItem(title, url, summary) ==
    [kind |-> "headline", arg |-> title, url |-> url, summary |-> summary]
IsUrl(s) == s # <<>> /\ s[1] = "http:"

FmtAt(lines, n, fmt) == n <= Len(lines) /\ lines[n].fmt = fmt

RECURSIVE TextItemsFrom(_, _)
TextItemsFrom(lines, n) ==
    IF n > Len(lines) THEN <<>>
    ELSE IF FmtAt(lines, n, "\n{}") /\ FmtAt(lines, n + 1, "-*len")
    THEN <<Item("source", lines[n].arg)>> \o TextItemsFrom(lines, n + 2)
    ELSE IF FmtAt(lines, n, "  {}")
    THEN <<Item("empty", lines[n].arg)>> \o TextItemsFrom(lines, n + 1)
    ELSE IF FmtAt(lines, n, "\n  {}:")
    THEN <<Item("section", lines[n].arg)>> \o TextItemsFrom(lines, n + 1)
    ELSE IF FmtAt(lines, n, "  - {}")
    THEN IF FmtAt(lines, n + 1, "    {}") /\ FmtAt(lines, n + 2, "    {}")
         THEN <<HeadlineItem(lines[n].arg, TRUE, lines[n + 2].arg)>>
              \o TextItemsFrom(lines, n + 3)
         ELSE IF FmtAt(lines, n + 1, "    {}")
         THEN <<IF IsUrl(lines[n + 1].arg)
                THEN HeadlineItem(lines[n].arg, TRUE, <<>>)
                ELSE HeadlineItem(lines[n].arg, FALSE, lines[n + 1].arg)>>
              \o TextItemsFrom(lines, n + 2)
         ELSE <<HeadlineItem(lines[n].arg, FALSE, <<>>)>>
              \o TextItemsFrom(lines, n + 1)
    ELSE TextItemsFrom(lines, n + 1)

TextItems(lines) == TextItemsFrom(lines, 1)

RECURSIVE HtmlItemsFrom(_, _)
HtmlItemsFrom(parts, n) ==
    IF n > Len(parts) THEN <<>>
    ELSE IF FmtAt(parts, n, "<h2>{}</h2>")
    THEN <<Item("source", parts[n].arg)>> \o HtmlItemsFrom(parts, n + 1)
    ELSE IF FmtAt(parts, n, "<p italic>{}</p>")
    THEN <<Item("empty", parts[n].arg)>> \o HtmlItemsFrom(parts, n + 1)
    ELSE IF FmtAt(parts, n, "<h3>{}</h3>")
    THEN <<Item("section", parts[n].arg)>> \o HtmlItemsFrom(parts, n + 1)
    ELSE IF FmtAt(parts, n, "<li>") /\ n + 1 <= Len(parts)
    THEN <<HeadlineItem(parts[n + 1].arg,
                        parts[n + 1].fmt = "<a href={}>{}</a>",
                        IF FmtAt(parts, n + 2, "<br><span>{}</span>")
                        THEN parts[n + 2].arg ELSE <<>>)>>
         \o HtmlItemsFrom(parts, n + 2)
    ELSE HtmlItemsFrom(parts, n + 1)

HtmlItems(parts) == HtmlItemsFrom(parts, 1)

\* the positions of the source headers among the items
SourceAt(items) == {n \in DOMAIN items : items[n].kind = "source"}
\* whether the source has a header among the items
Rendered(items, source) ==
    \E n \in SourceAt(items) : items[n].arg = <<source>>
\* the items under the source's (first) header, up to the next header
Under(items, source) ==
    LET at   == CHOOSE n \in SourceAt(items) :
                    /\ items[n].arg = <<source>>
                    /\ \A m \in SourceAt(items) : items[m].arg = <<source>> => n <= m
        next == CHOOSE n \in (at + 1)..(Len(items) + 1) :
                    /\ n = Len(items) + 1 \/ items[n].kind = "source"
                    /\ \A m \in (at + 1)..(n - 1) : items[m].kind # "source"
    IN  SubSeq(items, at + 1, next - 1)
\* how many headers the source has among the items
Headers(items, source) ==
    Cardinality({n \in SourceAt(items) : items[n].arg = <<source>>})

\* the headlines of all the sections of a mapping
NoHeadlines(sections) == \A n \in DOMAIN sections : sections[n].v = <<>>

Formatted == pc = "formatted"

(***************************************************************************)
(* Claims about format_email_body (SpecRender)                             *)
(***************************************************************************)
C6_Sentence(source) ==
    IF source = "SUBSTACK" THEN <<"No new posts in the last 24 hours">>
    ELSE <<"No new episodes in the last 48 hours">>

\* C6: when SUBSTACK (PODCASTS) is in the digest and none of its sections
\* holds a headline, the text and the HTML both show its header once,
\* followed by exactly its empty-state sentence: no sub-header, no headline.
C6_EmptyStateShown ==
    Formatted =>
        \A source \in {"SUBSTACK", "PODCASTS"} :
            Has(digest, source) /\ NoHeadlines(Get(digest, source)) =>
                \A items \in {TextItems(body[1].text), HtmlItems(body[1].html)} :
                    /\ Headers(items, source) = 1
                    /\ Under(items, source) = <<Item("empty", C6_Sentence(source))>>

\* PODCASTS is in the digest with two empty sections, and the body is made
C6_Witness ==
    /\ Formatted
    /\ Has(digest, "PODCASTS")
    /\ Len(Get(digest, "PODCASTS")) = 2
    /\ NoHeadlines(Get(digest, "PODCASTS"))

\* the digest without the source
Without(all_headlines, source) ==
    SelectSeq(all_headlines, LAMBDA p : p.k # source)

\* C7: a source other than SUBSTACK and PODCASTS without any headline
\* contributes nothing to the text or the HTML: it has no header in either,
\* and both are what they are for the digest without that source.
C7_EmptySourceSkipped ==
    Formatted =>
        \A source \in Keys(digest) \ {"SUBSTACK", "PODCASTS"} :
            NoHeadlines(Get(digest, source)) =>
                /\ ~Rendered(TextItems(body[1].text), source)
                /\ ~Rendered(HtmlItems(body[1].html), source)
                /\ \A n \in DOMAIN body[1].text : body[1].text[n].arg # <<source>>
                /\ \A n \in DOMAIN body[1].html : body[1].html[n].arg # <<source>>
                /\ body[1] = format_email_body(Without(digest, source))

\* a press source is in the digest with sections, all of them empty, beside
\* a source that is rendered
C7_Witness ==
    /\ Formatted
    /\ Has(digest, "LA PRESSE")
    /\ Get(digest, "LA PRESSE") # <<>>
    /\ NoHeadlines(Get(digest, "LA PRESSE"))
    /\ Rendered(TextItems(body[1].text), "AXIOS")

C8_Order ==
    <<"NEW YORK TIMES", "LA PRESSE", "GLOBE AND MAIL", "AXIOS", "SUBSTACK", "PODCASTS">>
C8_Pos(source) == CHOOSE n \in DOMAIN C8_Order : C8_Order[n] = source

\* a headline as the item it is rendered as
AsItem(h) == HeadlineItem(h.title, h.url # <<>>, h.summary)
RECURSIVE AsItems(_)
AsItems(headlines) ==
    IF headlines = <<>> THEN <<>>
    ELSE (IF Head(headlines).title # <<>> THEN <<AsItem(Head(headlines))>> ELSE <<>>)
         \o AsItems(Tail(headlines))
\* the headlines of all the sections, in the mapping's order
RECURSIVE AllItems(_)
AllItems(sections) ==
    IF sections = <<>> THEN <<>>
    ELSE AsItems(Head(sections).v) \o AllItems(Tail(sections))

OfKind(items, kind) == SelectSeq(items, LAMBDA x : x.kind = kind)
\* the headline items that follow position n, up to the next other item
RECURSIVE HeadlinesAfter(_, _)
HeadlinesAfter(items, n) ==
    IF n + 1 > Len(items) \/ items[n + 1].kind # "headline" THEN <<>>
    ELSE <<items[n + 1]>> \o HeadlinesAfter(items, n + 1)

\* C8: in both outputs the rendered sources follow the fixed sequence NEW
\* YORK TIMES, LA PRESSE, GLOBE AND MAIL, AXIOS, SUBSTACK, PODCASTS whatever
\* the insertion order of the digest; the sub-headers of a source follow its
\* mapping's insertion order; and the headlines of a source, and those
\* under each sub-header, are the section's titled headlines in the order
\* of its sequence.
C8_FixedOrder ==
    Formatted =>
        \A items \in {TextItems(body[1].text), HtmlItems(body[1].html)} :
            /\ \A m, n \in SourceAt(items) :
                   m < n => C8_Pos(items[m].arg[1]) < C8_Pos(items[n].arg[1])
            /\ \A source \in Keys(digest) :
                   Rendered(items, source) =>
                       LET under    == Under(items, source)
                           sections == Get(digest, source)
                           subs     == OfKind(under, "section")
                       IN  /\ \A m, n \in DOMAIN subs :
                                  m < n => IndexOf(sections, subs[m].arg[1])
                                           < IndexOf(sections, subs[n].arg[1])
                           /\ OfKind(under, "headline") = AllItems(sections)
                           /\ \A n \in DOMAIN under :
                                  under[n].kind = "section" =>
                                      HeadlinesAfter(under, n)
                                      = AsItems(Get(sections, under[n].arg[1]))

\* GLOBE AND MAIL is inserted before LA PRESSE, both are rendered, LA PRESSE
\* with two sub-headers and two headlines under one of them
C8_Witness ==
    /\ Formatted
    /\ Has(digest, "GLOBE AND MAIL") /\ Has(digest, "LA PRESSE")
    /\ IndexOf(digest, "GLOBE AND MAIL") < IndexOf(digest, "LA PRESSE")
    /\ Rendered(TextItems(body[1].text), "GLOBE AND MAIL")
    /\ Rendered(HtmlItems(body[1].html), "LA PRESSE")
    /\ Len(OfKind(Under(TextItems(body[1].text), "LA PRESSE"), "section")) = 2
    /\ Len(Get(digest, "LA PRESSE")[1].v) = 2

\* C9: the items read back from the text (source header, empty-state
\* sentence, section sub-header, headline title, URL presence, summary) are
\* the items read back from the HTML, in the same order.
C9_SameTraversal ==
    Formatted => TextItems(body[1].text) = HtmlItems(body[1].html)

\* a rendered source holds a headline without a title, which is skipped
C9_Witness ==
    /\ Formatted
    /\ \E source \in Keys(digest) :
         /\ Rendered(TextItems(body[1].text), source)
         /\ \E n \in DOMAIN Get(digest, source) :
              \E m \in DOMAIN Get(digest, source)[n].v :
                 Get(digest, source)[n].v[m].title = <<>>
         /\ Len(OfKind(Under(TextItems(body[1].text), source), "headline")) = 1

(***************************************************************************)
(* Claims about the run of main (Spec)                                     *)
(***************************************************************************)
Done == pc = "done"
AllFetched == \A s \in SourceNames : fetched[s] # None
NothingFetched == \A s \in SourceNames : fetched[s] = Some(<<>>)

\* C1: when no source produced a headline (the four press fetches and the
\* two time-windowed fetches all returned nothing) main returns 1 and no
\* delivery is attempted; main returns 0 only when some source produced a
\* headline and the delivery succeeded.
C1_NoHeadlinesNoDelivery ==
    Done =>
        /\ NothingFetched => ret = Some(1) /\ smtp = "idle"
        /\ ret = Some(0) => ~NothingFetched /\ AllFetched /\ smtp = "sent"

\* C3: a feed whose fetch or parse raises stops nothing: the exception
\* reaches no caller (main does not end in its handler), the fetch goes on
\* with its next feed, and the step leaves what it would leave had the feed
\* returned nothing.
C3_FailureIsolated ==
    [][feed' # None /\ feed'[1].raises =>
          /\ ret' = None /\ pc' # "done"
          /\ acc' = acc
          /\ digest' = digest
          /\ pc \in SectionedPcs =>
                /\ pc' = pc /\ i' = i + 1
                /\ acc' = fetch_section(acc, SectionsOf(pc)[i], Feed(FALSE, FALSE, <<>>),
                                        MaxItemsOf(pc))
          /\ pc = "axios" =>
                /\ pc' = "substack"
                /\ fetched'["AXIOS"] = Some(fetch_axios(Feed(FALSE, FALSE, <<>>)))
                /\ fetched'["AXIOS"] = Some(<<>>)
          /\ pc \in RecentPcs =>
                /\ pc' = pc /\ i' = i + 1
                /\ Returned(acc') = fetch_recent_feed(acc, pc, accounts[i],
                                                      Feed(FALSE, FALSE, <<>>), cutoff)
      ]_vars

\* the third Substack feed raised after an earlier one gave a post, with the
\* NEW YORK TIMES in the digest, and the fetch is at its fourth account
C3_Witness ==
    /\ pc = "substack" /\ i = 4
    /\ feed # None /\ feed[1].raises
    /\ acc # <<>>
    /\ Has(digest, "NEW YORK TIMES")
    /\ ret = None

\* C5: after the aggregation each press source is a key of the digest if
\* and only if its fetch returned something, and SUBSTACK and PODCASTS are
\* always keys, each with exactly one section, which holds what the fetch
\* returned: the empty sequence when nothing recent was found.
C5_DigestKeys ==
    pc = "send" \/ (Done /\ AllFetched) =>
        /\ \A s \in PressSources :
              /\ Has(digest, s) <=> fetched[s] # Some(<<>>)
              /\ Has(digest, s) => Get(digest, s) # <<>>
        /\ \A s \in {"NEW YORK TIMES", "GLOBE AND MAIL", "LA PRESSE"} :
              Has(digest, s) => Some(Get(digest, s)) = fetched[s]
        /\ Has(digest, "AXIOS") =>
              /\ Len(Get(digest, "AXIOS")) = 1
              /\ Some(Get(digest, "AXIOS")[1].v) = fetched["AXIOS"]
        /\ \A s \in {"SUBSTACK", "PODCASTS"} :
              /\ Has(digest, s)
              /\ Len(Get(digest, s)) = 1
              /\ Some(Get(digest, s)[1].v) = fetched[s]
        /\ Keys(digest) \subseteq SourceNames

\* the aggregation is over: GLOBE AND MAIL returned nothing and is no key,
\* AXIOS is one, SUBSTACK has its empty section and PODCASTS an episode
C5_Witness ==
    /\ pc = "send"
    /\ fetched["GLOBE AND MAIL"] = Some(<<>>) /\ ~Has(digest, "GLOBE AND MAIL")
    /\ Has(digest, "AXIOS")
    /\ Get(digest, "SUBSTACK")[1].v = <<>>
    /\ Get(digest, "PODCASTS")[1].v # <<>>

(***************************************************************************)
(* Claims about the normaliser (SpecNorm)                                  *)
(***************************************************************************)
NormalizedDone == pc = "normalized"

\* C2: a produced Headline has a non-empty title after markup stripping and
\* white-space collapsing, and an entry whose title is empty after
\* stripping yields the absent result.
C2_TitleNonEmpty ==
    NormalizedDone =>
        /\ headline # None => headline[1].title # <<>>
        /\ clean_html(entry[1].title) = <<>> => headline = None

C10_Dots == <<".", ".", ".">>

\* C10: a produced summary has at most 203 symbols; a cleaned summary of at
\* most 200 is kept as it is; a longer one is cut at the last space of its
\* first 200 symbols and gets "...", so that the kept text ends with a whole
\* word, unless these hold no space: then the first 200 are kept.
C10_SummaryBounded ==
    NormalizedDone /\ headline # None =>
        LET sum     == headline[1].summary
            cleaned == clean_html(SummaryOf(entry[1]))
            spaces  == {n \in 1..200 : cleaned[n] = " "}
        IN  /\ Len(sum) <= 203
            /\ ~include_summary => sum = <<>>
            /\ include_summary /\ Len(cleaned) <= 200 => sum = cleaned
            /\ include_summary /\ Len(cleaned) > 200 =>
                  IF spaces = {} THEN sum = SubSeq(cleaned, 1, 200) \o C10_Dots
                  ELSE \E k \in spaces :
                          /\ \A m \in spaces : m <= k
                          /\ sum = SubSeq(cleaned, 1, k - 1) \o C10_Dots
                          /\ k > 1 /\ ~IsSpace(cleaned[k - 1])

\* a summary of more than 200 symbols was cut at a space before the limit
C10_Witness ==
    /\ NormalizedDone /\ headline # None /\ include_summary
    /\ Len(clean_html(SummaryOf(entry[1]))) > 200
    /\ Len(headline[1].summary) > 3
    /\ Len(headline[1].summary) < 203

(***************************************************************************)
(* Claims about the time-windowed fetches (SpecRecent)                     *)
(***************************************************************************)
\* C4: with cutoff = now - window, an entry is appended to the result if and
\* only if _parse_date gives it a time, that time is strictly after the
\* cutoff, and its title is not empty; an entry at the cutoff and an entry
\* without a time are left out; the result grows at its end only, account
\* after account, so it is in account order then feed order.
C4_StrictlyRecent ==
    [][/\ i' >= i
       /\ j' # j + 1 => acc' = acc
       /\ j' = j + 1 =>
            LET e  == entry'[1]
                ts == parse_date(e)
            IN  IF ts # None /\ ts[1] > Now - (IF pc = "substack" THEN 24 ELSE 48)
                   /\ Strip(e.title) # <<>>
                THEN /\ Len(acc') = Len(acc) + 1
                     /\ SubSeq(acc', 1, Len(acc)) = acc
                     /\ acc'[Len(acc')].url = Strip(e.link)
                     /\ acc'[Len(acc')].title
                        = (IF pc = "substack" THEN <<"@", accounts[i], ":", " ">>
                           ELSE <<accounts[i], ":", " ">>) \o Strip(e.title)
                ELSE acc' = acc
      ]_vars

\* an entry published exactly at the cutoff has just been left out of a
\* result that already holds an entry of an earlier account
C4_Witness ==
    /\ pc \in RecentPcs /\ i = 2 /\ j >= 1
    /\ entry # None
    /\ parse_date(entry[1]) = Some(cutoff)
    /\ Strip(entry[1].title) # <<>>
    /\ Len(acc) = 1

\* the cap of the press fetch in progress
C11_Cap == IF pc = "axios" THEN max_headlines ELSE MaxItemsOf(pc)
\* the headlines the fetch produced for the feed it parsed
C11_Produced ==
    IF pc = "axios" THEN acc
    ELSE IF Has(acc, SectionsOf(pc)[i - 1]) THEN Get(acc, SectionsOf(pc)[i - 1])
    ELSE <<>>
\* the first N entries of the feed whose normalisation is not absent
C11_Kept ==
    SelectSeq(SubSeq(feed[1].entries, 1, Min(C11_Cap, Len(feed[1].entries))),
              LAMBDA e : entry_to_headline(e, TRUE) # None)

\* C11: the headlines a press fetch produces for a feed are the
\* normalisations of the first N entries of the feed, in the feed's order,
\* without the absent results: at most N of them, none from an entry after
\* the N-th; nothing when the parser reports an error and gives no entry,
\* and the same as without the error when it reports one and gives entries.
C11_FirstNNormalized ==
    (feed # None /\ ~feed[1].raises) =>
        LET produced == C11_Produced
            kept     == C11_Kept
        IN  /\ produced = [n \in 1..Len(kept) |-> entry_to_headline(kept[n], TRUE)[1]]
            /\ Len(produced) <= C11_Cap
            /\ (feed[1].bozo /\ feed[1].entries = <<>>) => produced = <<>>

\* a feed with an error reported, more entries than the cap, a discarded
\* entry among the first N and a titled entry right after the N-th
C11_Witness ==
    /\ feed # None /\ ~feed[1].raises /\ feed[1].bozo
    /\ Len(feed[1].entries) > C11_Cap
    /\ \E n \in 1..C11_Cap : entry_to_headline(feed[1].entries[n], TRUE) = None
    /\ entry_to_headline(feed[1].entries[C11_Cap + 1], TRUE) # None
    /\ C11_Produced # <<>>
    /\ Len(C11_Produced) < C11_Cap

\* C12: every run of main ends by returning 0 or 1 and no exception leaves
\* it: without credentials, and whatever the feeds, the rendering and the
\* SMTP session do, the run reaches its end with a return value of 0 or 1,
\* which is 1 whenever a step failed, and send_daily_digest returns a
\* boolean for every digest and every outcome of the delivery.
C12_AlwaysReturns ==
    /\ [](pc # "raised")
    /\ [](Done <=> ret # None)
    /\ [](Done => ret \in {Some(0), Some(1)})
    /\ [](Done /\ ~AllFetched => ret = Some(1))
    /\ [](Done /\ ret = Some(0) => smtp = "sent")
    /\ [](pc = "send" =>
            \A outcome \in SendOutcomes :
                /\ ~send_daily_digest(digest, outcome).raised
                /\ send_daily_digest(digest, outcome).val \in BOOLEAN)
    /\ <>Done

\* the run ended in main's handler: the constructor raised for want of
\* credentials and main returned 1 without a fetch
C12_Witness ==
    /\ Done /\ ret = Some(1)
    /\ \A s \in SourceNames : fetched[s] = None
    /\ smtp = "idle"

\* the time of the first of the three representations that converts
C13_FirstThatParses(e) ==
    IF e.published_parsed.kind = "time" THEN Some(e.published_parsed.t)
    ELSE IF e.updated_parsed.kind = "time" THEN Some(e.updated_parsed.t)
    ELSE IF e.published.kind = "time" THEN Some(e.published.t)
    ELSE None

\* C13: _parse_date gives the time of the first representation, in the
\* order structured publish time, structured update time, textual publish
\* date, that converts, and nothing only when none of the three does: an
\* entry whose structured publish time is present but does not convert and
\* whose update time is valid gets the update time.
C13_FallbackChain ==
    (pc \in RecentPcs /\ entry # None) =>
        parse_date(entry[1]) = C13_FirstThatParses(entry[1])

\* the names on the sub-headers among the items, in order
C14_SubHeaders(items) ==
    LET subs == SelectSeq(items, LAMBDA it : it.kind = "section")
    IN  [n \in DOMAIN subs |-> subs[n].arg[1]]
\* the names of the sections that hold at least one headline, in order
C14_NonEmpty(sections) ==
    LET full == SelectSeq(sections, LAMBDA p : p.v # <<>>)
    IN  [n \in DOMAIN full |-> full[n].k]

\* C14: for a source rendered with content, a section gets a sub-header, in
\* the text and in the HTML, if and only if it holds at least one headline
\* and the source's mapping has more than one section: a source with one
\* section gets no sub-header and a section without headlines gets none.
C14_SubHeaderRule ==
    Formatted =>
        \A source \in Keys(digest) :
            ~NoHeadlines(Get(digest, source)) =>
                \A items \in {TextItems(body[1].text), HtmlItems(body[1].html)} :
                    /\ Rendered(items, source)
                    /\ C14_SubHeaders(Under(items, source)) =
                          IF Len(Get(digest, source)) > 1
                          THEN C14_NonEmpty(Get(digest, source))
                          ELSE <<>>

\* a source with two sections, the first without headlines, is rendered
\* with the one sub-header of its second section in both outputs
C14_Witness ==
    /\ Formatted
    /\ \E source \in Keys(digest) :
          /\ Len(Get(digest, source)) = 2
          /\ Get(digest, source)[1].v = <<>>
          /\ Get(digest, source)[2].v # <<>>
          /\ C14_SubHeaders(Under(HtmlItems(body[1].html), source))
                = <<Get(digest, source)[2].k>>
          /\ C14_SubHeaders(Under(TextItems(body[1].text), source))
                = <<Get(digest, source)[2].k>>

====
